---- MODULE Spec2Model ----
(***************************************************************************)
(* Model of src/lib.rs: a process-wide table of unique strings.            *)
(*                                                                         *)
(*   struct Symbol(usize)                                                  *)
(*   struct State { mapping: HashMap<&'static str, usize>,                 *)
(*                  values:  Vec<String> }                                 *)
(*   static STATE: OnceLock<RwLock<State>>                                 *)
(*                                                                         *)
(* Memory is explicit: every String owns a heap buffer, the Vec owns a     *)
(* block that holds the String structs (pointers to their buffers), and    *)
(* the keys of the map and the views returned by as_ref are raw addresses  *)
(* of buffers (the two transmutes erase their lifetimes).  Threads run     *)
(* Symbol::new and as_ref step by step under the RwLock.                   *)
(***************************************************************************)
EXTENDS Integers, Sequences, FiniteSets, TLC

\* ---------------------------------------------------------------- bounds
\* The threads of the process that use the table.
Threads == {1, 2}

\* The table is explored up to this many entries.
MaxEntries == 2

\* ---------------------------------------------------------------- inputs
\* String contents the callers use.
Strs == {"", "a"}

\* Markers: a conversion of the caller's type that panics; heap cells.
PANIC == "<panic>"
FREE  == "<free>"

\* A conversion of the caller's type that reads the table itself: as_ref()
\* of a type that wraps a Symbol and returns that Symbol's as_ref().
REENTER == "<reenter>"

\* <&str as Default>::default(), the argument of Symbol::default (line 50).
StrDefault_a == "a"
StrDefault == ""

\* The values a caller can pass for T: AsRef<str> + Into<String>.
\*   form "str":    T = &str,   as_ref() = into() = the text, into() allocates
\*   form "String": T = String, as_ref() = into() = the text, into() moves
\*   form "custom": any other T: as_ref() gives ref, into() gives own, and
\*                  either conversion may panic or, for as_ref(), read a Symbol
StdInputs == { [form |-> f, ref |-> s, own |-> s] : f \in {"str", "String"}, s \in Strs }
CustomInputs ==
    { [form |-> "custom", ref |-> r, own |-> o] : r \in Strs, o \in Strs \cup {PANIC} }
    \cup { [form |-> "custom", ref |-> PANIC, own |-> PANIC] }
    \cup { [form |-> "custom", ref |-> REENTER, own |-> REENTER] }
Inputs == StdInputs \cup { a \in CustomInputs : a.ref # a.own \/ a.ref \in {PANIC, REENTER} }
NoInput == [form |-> "none", ref |-> "", own |-> ""]

\* The argument is a &str or a String: both conversions give the same text.
Std(a) == a.form \in {"str", "String"}

\* ---------------------------------------------------------------- state
VARIABLES
    inited,     \* STATE.get_or_init has run
    values,     \* State.values: the String structs, each the address of its buffer
    mapping,    \* State.mapping: set of [key |-> address of a str, index |-> usize]
    heap,       \* heap[a]: text of the String buffer at address a, or FREE
    vecPtr,     \* the Vec's block: 0 before the first allocation, a new id per move
    writer,     \* thread holding the RwLock in write mode, 0 if none
    readers,    \* threads holding the RwLock in read mode
    poisoned,   \* the RwLock's poison flag
    pc,         \* per thread: position
    op,         \* per thread: the entry point of the current call
    arg,        \* per thread: `value` of Symbol::new
    buf,        \* per thread: buffer owned by `value` when it is a String, else 0
    index,      \* per thread: local `index` of Symbol::new
    sym,        \* per thread: Symbol returned by the current Symbol::new, -1 if none
    res,        \* per thread: "ok", "panic" or "none" for the current call
    view,       \* per thread: self and the &str as_ref returned for it
    base,       \* per thread: entries at the call if the text was absent then, else -1
    issued      \* indices of the Symbols returned so far

vars == << inited, values, mapping, heap, vecPtr, writer, readers, poisoned,
           pc, op, arg, buf, index, sym, res, view, base, issued >>

table == << inited, values, mapping, heap, vecPtr >>
lock  == << writer, readers, poisoned >>

NoView == [sym |-> -1, ptr |-> 0, text |-> "", block |-> 0]

\* ---------------------------------------------------------------- memory
\* The allocator returns the lowest free address.
Alloc(h) ==
    IF \E a \in 1..Len(h) : h[a] = FREE
    THEN CHOOSE a \in 1..Len(h) : h[a] = FREE /\ \A b \in 1..(a - 1) : h[b] # FREE
    ELSE Len(h) + 1

Store(h, a, v) == IF a = Len(h) + 1 THEN Append(h, v) ELSE [h EXCEPT ![a] = v]

Dealloc(h, a) == IF a = 0 THEN h ELSE [h EXCEPT ![a] = FREE]

\* Reading the characters behind a raw &str.
Deref(h, p) == IF p \in 1..Len(h) THEN h[p] ELSE FREE

\* String::as_str (lines 32 and 43): the address of the String's own buffer.
as_str(string) == string

\* value.into() (line 27) for a String moves its buffer into the new entry:
\* the argument owns nothing afterwards and its drop frees nothing.
moved_still_owned(b) == b
moved(b) == 0

\* values[i] for a 0-based usize i.
At(v, i) == v[i + 1]

\* The text of entry i.
Text(v, h, i) == Deref(h, as_str(At(v, i)))

Indices(v) == 0..(Len(v) - 1)
Contents(v, h) == { Text(v, h, i) : i \in Indices(v) }

\* ---------------------------------------------------------------- HashMap
\* Keys are hashed and compared by the characters they point at.
Hits(m, h, text) == { e \in m : Deref(h, e.key) = text }
Keys(m, h) == { Deref(h, e.key) : e \in m }

\* HashMap::get (line 23).
get_first(m, h, text) == { e \in m : e.index = 0 }
get_other(m, h, text) == IF Hits(m, h, text) = {} THEN {} ELSE m
get(m, h, text) == Hits(m, h, text)

\* HashMap::insert (line 33): an equal key keeps the old key and takes the new value.
insert_after(m, h, key, i) == m \cup { [key |-> key, index |-> i + 1] }
insert(m, h, key, i) ==
    IF Hits(m, h, Deref(h, key)) # {}
    THEN { IF e \in Hits(m, h, Deref(h, key)) THEN [e EXCEPT !.index = i] ELSE e : e \in m }
    ELSE m \cup { [key |-> key, index |-> i] }

\* ---------------------------------------------------------------- RwLock
\* RwLock::write is granted when nobody holds the lock, RwLock::read when no
\* writer holds it.
can_write_unguarded == TRUE
can_write == writer = 0 /\ readers = {}
can_read_unguarded == TRUE
can_read == writer = 0

\* ---------------------------------------------------------------- Init
Init ==
    /\ inited = FALSE
    /\ values = << >>
    /\ mapping = {}
    /\ heap = << >>
    /\ vecPtr = 0
    /\ writer = 0
    /\ readers = {}
    /\ poisoned = FALSE
    /\ pc = [t \in Threads |-> "idle"]
    /\ op = [t \in Threads |-> "none"]
    /\ arg = [t \in Threads |-> NoInput]
    /\ buf = [t \in Threads |-> 0]
    /\ index = [t \in Threads |-> -1]
    /\ sym = [t \in Threads |-> -1]
    /\ res = [t \in Threads |-> "none"]
    /\ view = [t \in Threads |-> NoView]
    /\ base = [t \in Threads |-> -1]
    /\ issued = {}

\* ---------------------------------------------------------------- Symbol::new
\* The model stops growing at MaxEntries: a call is made only if it cannot
\* push past the bound (keys are never removed, so a present key stays a hit).
Pending == { u \in Threads : pc[u] \in {"new_write", "new_get", "new_push"} }
Budget(a) ==
    \/ a.ref \in {PANIC, REENTER}
    \/ a.ref \in Keys(mapping, heap)
    \/ Len(values) + Cardinality(Pending) < MaxEntries

Idle(t) == pc[t] \in {"idle", "done"}

\* A caller enters Symbol::new (line 18) through entry point o with value a.
new_call(t, a, o) ==
    /\ Idle(t)
    /\ Budget(a)
    /\ pc' = [pc EXCEPT ![t] = "new_write"]
    /\ op' = [op EXCEPT ![t] = o]
    /\ arg' = [arg EXCEPT ![t] = a]
    /\ sym' = [sym EXCEPT ![t] = -1]
    /\ res' = [res EXCEPT ![t] = "none"]
    /\ base' = [base EXCEPT ![t] =
                  IF Std(a) /\ a.ref \notin Keys(mapping, heap) \cup Contents(values, heap)
                  THEN Len(values) ELSE -1]
    /\ UNCHANGED << table, lock, buf, index, issued >>

\* Symbol::new(value), From::from(value) (lines 18, 59).
new(t) ==
    /\ \E a \in Inputs : new_call(t, a, "new")
    /\ view' = [view EXCEPT ![t] = NoView]

\* Default::default (line 50).
default(t) ==
    /\ new_call(t, [form |-> "str", ref |-> StrDefault, own |-> StrDefault], "default")
    /\ view' = [view EXCEPT ![t] = NoView]

\* The string this thread's serialize call handed to the serializer.
Serialized(t) == pc[t] = "done" /\ op[t] = "serialize" /\ res[t] = "ok"

\* The format gives the string s to a deserialization: when s is what the
\* thread's serialize call has just produced, the thread keeps the Symbol it
\* serialized to compare with (a round trip); any other string comes from
\* elsewhere.
RoundTrip(t, s) == IF Serialized(t) /\ view[t].text = s THEN view[t] ELSE NoView

\* Visitor::visit_str (line 128): the format gives any borrowed string, at any
\* time (a default visit_borrowed_str or visit_char forwards here too).
visit_str(t) ==
    \E s \in Strs :
        /\ new_call(t, [form |-> "str", ref |-> s, own |-> s], "visit_str")
        /\ view' = [view EXCEPT ![t] = RoundTrip(t, s)]

\* Visitor::visit_string (line 136): the format gives any owned String, at any
\* time.
visit_string(t) ==
    \E s \in Strs :
        /\ new_call(t, [form |-> "String", ref |-> s, own |-> s], "visit_string")
        /\ view' = [view EXCEPT ![t] = RoundTrip(t, s)]

\* Deserialize::deserialize (line 104) on a source that holds no string: the
\* Visitor has no visit method but visit_str and visit_string, so the format
\* returns its own invalid-type error, worded with expecting (lines 122-125).
\* Symbol::new is not called.
expecting(t) ==
    /\ Idle(t)
    /\ pc' = [pc EXCEPT ![t] = "done"]
    /\ op' = [op EXCEPT ![t] = "expecting"]
    /\ res' = [res EXCEPT ![t] = "error"]
    /\ arg' = [arg EXCEPT ![t] = NoInput]
    /\ sym' = [sym EXCEPT ![t] = -1]
    /\ base' = [base EXCEPT ![t] = -1]
    /\ view' = [view EXCEPT ![t] = NoView]
    /\ UNCHANGED << table, lock, buf, index, issued >>

\* A panic unwinds out of Symbol::new: `value` is dropped, and a write guard
\* dropped during a panic poisons the lock.
Unwind(t, holdsWrite) ==
    /\ pc' = [pc EXCEPT ![t] = "done"]
    /\ res' = [res EXCEPT ![t] = "panic"]
    /\ heap' = Dealloc(heap, buf[t])
    /\ buf' = [buf EXCEPT ![t] = 0]
    /\ IF holdsWrite
       THEN /\ poisoned' = TRUE
            /\ writer' = 0
       ELSE UNCHANGED << poisoned, writer >>
    /\ UNCHANGED << values, mapping, vecPtr, readers, op, arg, index, sym, view, base,
                    issued >>

\* State::instance().write().unwrap() (lines 22, 88-91).  The buffer of a
\* String argument was allocated by the caller before the call; nothing but
\* the caller can reach it until the lookup, so it is given its address here.
new_write(t) ==
    /\ pc[t] = "new_write"
    /\ can_write
    /\ inited' = TRUE
    /\ IF poisoned
       THEN Unwind(t, FALSE)
       ELSE /\ writer' = t
            /\ pc' = [pc EXCEPT ![t] = "new_get"]
            /\ IF arg[t].form = "String"
               THEN /\ heap' = Store(heap, Alloc(heap), arg[t].own)
                    /\ buf' = [buf EXCEPT ![t] = Alloc(heap)]
               ELSE UNCHANGED << heap, buf >>
            /\ UNCHANGED << values, mapping, vecPtr, readers, poisoned, op, arg, index, sym,
                            res, view, base, issued >>

\* if let Some(index) = state.mapping.get(value.as_ref()) { return Self(*index) }
\* let index = state.values.len() (lines 23-26).  value.as_ref() runs with the
\* write guard held: when it calls Symbol::as_ref, the read() of line 41 finds
\* the lock held by its own thread, and it blocks for ever or panics.
new_get(t) ==
    /\ pc[t] = "new_get"
    /\ UNCHANGED inited
    /\ IF arg[t].ref = PANIC
       THEN Unwind(t, TRUE)
       ELSE IF arg[t].ref = REENTER
       THEN \/ Unwind(t, TRUE)
            \/ /\ ~can_read
               /\ pc' = [pc EXCEPT ![t] = "new_get_read"]
               /\ UNCHANGED << values, mapping, heap, vecPtr, lock, op, arg, buf, index, sym,
                               res, view, base, issued >>
       ELSE IF get(mapping, heap, arg[t].ref) # {}
       THEN \E e \in get(mapping, heap, arg[t].ref) :
            /\ sym' = [sym EXCEPT ![t] = e.index]
            /\ writer' = 0
            /\ IF buf[t] = 0
               THEN /\ res' = [res EXCEPT ![t] = "ok"]
                    /\ issued' = issued \cup {e.index}
                    /\ pc' = [pc EXCEPT ![t] = "done"]
               ELSE /\ pc' = [pc EXCEPT ![t] = "new_drop"]
                    /\ UNCHANGED << res, issued >>
            /\ UNCHANGED << values, mapping, heap, vecPtr, readers, poisoned, op, arg, buf,
                            index, view, base >>
       ELSE /\ index' = [index EXCEPT ![t] = Len(values)]
            /\ pc' = [pc EXCEPT ![t] = "new_push"]
            /\ UNCHANGED << values, mapping, heap, vecPtr, lock, op, arg, buf, sym, res,
                            view, base, issued >>

\* return Self(*index) (line 24) with a String argument: the guard `state`, a
\* local, was dropped by new_get; the parameter `value` is dropped after it,
\* with the lock already free, and then the caller has the Symbol.
new_drop(t) ==
    /\ pc[t] = "new_drop"
    /\ heap' = Dealloc(heap, buf[t])
    /\ buf' = [buf EXCEPT ![t] = 0]
    /\ res' = [res EXCEPT ![t] = "ok"]
    /\ issued' = issued \cup {sym[t]}
    /\ pc' = [pc EXCEPT ![t] = "done"]
    /\ UNCHANGED << inited, values, mapping, vecPtr, lock, op, arg, index, sym, view, base >>

\* Vec::push appends.  The block is reallocated when it is full; when that
\* is, and whether the block then moves, is the library's and the allocator's
\* choice (grow).
push_front(v, block, string, grow) ==
    [values |-> << string >> \o v,
     vecPtr |-> IF grow \/ block = 0 THEN block + 1 ELSE block]
push(v, block, string, grow) ==
    [values |-> Append(v, string),
     vecPtr |-> IF grow \/ block = 0 THEN block + 1 ELSE block]

\* state.values.push(value.into()) (line 27).
new_push(t) ==
    /\ pc[t] = "new_push"
    /\ UNCHANGED inited
    /\ IF arg[t].own = PANIC
       THEN Unwind(t, TRUE)
       ELSE \E grow \in BOOLEAN :
            LET p == IF arg[t].form = "String" THEN buf[t] ELSE Alloc(heap)
                r == push(values, vecPtr, p, grow)
            IN /\ heap' = IF arg[t].form = "String" THEN heap ELSE Store(heap, p, arg[t].own)
               /\ values' = r.values
               /\ vecPtr' = r.vecPtr
               /\ buf' = [buf EXCEPT ![t] = moved(buf[t])]
               /\ pc' = [pc EXCEPT ![t] = "new_insert"]
               /\ UNCHANGED << mapping, lock, op, arg, index, sym, res, view, base, issued >>

\* let value = transmute(state.values[index].as_str());
\* state.mapping.insert(value, index); Self(index) (lines 32-34).
new_insert(t) ==
    /\ pc[t] = "new_insert"
    /\ mapping' = insert(mapping, heap, as_str(At(values, index[t])), index[t])
    /\ sym' = [sym EXCEPT ![t] = index[t]]
    /\ res' = [res EXCEPT ![t] = "ok"]
    /\ issued' = issued \cup {index[t]}
    /\ pc' = [pc EXCEPT ![t] = "done"]
    /\ writer' = 0
    /\ index' = [index EXCEPT ![t] = -1]
    /\ heap' = Dealloc(heap, buf[t])
    /\ buf' = [buf EXCEPT ![t] = 0]
    /\ UNCHANGED << inited, values, vecPtr, readers, poisoned, op, arg, view, base >>

\* ---------------------------------------------------------------- as_ref
\* #[derive(Clone, Copy)] (line 6): a copy of a Symbol is the same index.
clone(self) == self

\* A caller reads the text of a copy of a Symbol s it was given, through entry
\* point o.
as_ref_call(t, s, o) ==
    /\ Idle(t)
    /\ view' = [view EXCEPT ![t] = [NoView EXCEPT !.sym = clone(s)]]
    /\ op' = [op EXCEPT ![t] = o]
    /\ res' = [res EXCEPT ![t] = "none"]
    /\ arg' = [arg EXCEPT ![t] = NoInput]
    /\ sym' = [sym EXCEPT ![t] = -1]
    /\ base' = [base EXCEPT ![t] = -1]
    /\ pc' = [pc EXCEPT ![t] = "as_ref_read"]
    /\ UNCHANGED << table, lock, buf, index, issued >>

\* AsRef::as_ref, Deref::deref, Display::fmt, Debug::fmt (lines 40, 82, 73, 66):
\* the last three are self.as_ref() and nothing else that touches the table.
as_ref(t) == \E s \in issued : as_ref_call(t, s, "as_ref")

\* Serialize::serialize (line 114): serialize_str(self.as_ref()).
serialize(t) == \E s \in issued : as_ref_call(t, s, "serialize")

\* State::instance().read().unwrap() (lines 41, 88-91).
as_ref_read(t) ==
    /\ pc[t] = "as_ref_read"
    /\ can_read
    /\ inited' = TRUE
    /\ IF poisoned
       THEN /\ pc' = [pc EXCEPT ![t] = "done"]
            /\ res' = [res EXCEPT ![t] = "panic"]
            /\ UNCHANGED readers
       ELSE /\ readers' = readers \cup {t}
            /\ pc' = [pc EXCEPT ![t] = "as_ref_index"]
            /\ UNCHANGED res
    /\ UNCHANGED << values, mapping, heap, vecPtr, writer, poisoned, op, arg, buf, index,
                    sym, view, base, issued >>

\* A read that would take the String out of the entry it indexes.
as_ref_take(t) ==
    /\ pc[t] = "as_ref_index"
    /\ LET p == as_str(At(values, view[t].sym))
       IN view' = [view EXCEPT ![t] =
                     [sym |-> view[t].sym, ptr |-> p, text |-> Deref(heap, p),
                      block |-> vecPtr]]
    /\ values' = [values EXCEPT ![view[t].sym + 1] = 0]
    /\ res' = [res EXCEPT ![t] = "ok"]
    /\ readers' = readers \ {t}
    /\ pc' = [pc EXCEPT ![t] = "done"]
    /\ UNCHANGED << inited, mapping, heap, vecPtr, writer, poisoned, op, arg, buf, index,
                    sym, base, issued >>

\* transmute(state.values[self.0].as_str()) (line 43); the guard drops on return.
as_ref_index(t) ==
    /\ pc[t] = "as_ref_index"
    /\ LET p == as_str(At(values, view[t].sym))
       IN view' = [view EXCEPT ![t] =
                     [sym |-> view[t].sym, ptr |-> p, text |-> Deref(heap, p),
                      block |-> vecPtr]]
    /\ res' = [res EXCEPT ![t] = "ok"]
    /\ readers' = readers \ {t}
    /\ pc' = [pc EXCEPT ![t] = "done"]
    /\ UNCHANGED << table, writer, poisoned, op, arg, buf, index, sym, base, issued >>

\* ---------------------------------------------------------------- Spec
Next ==
    \E t \in Threads :
        \/ new(t)
        \/ default(t)
        \/ visit_str(t)
        \/ visit_string(t)
        \/ expecting(t)
        \/ new_write(t)
        \/ new_get(t)
        \/ new_drop(t)
        \/ new_push(t)
        \/ new_insert(t)
        \/ as_ref(t)
        \/ serialize(t)
        \/ as_ref_read(t)
        \/ as_ref_index(t)

Spec == Init /\ [][Next]_vars

\* ---------------------------------------------------------------- Symbol
\* #[derive(Clone, Copy, Hash)] struct Symbol(usize) (lines 7-8): a Symbol is
\* its index, and the derived Hash feeds the index to the hasher.
Hash(s) == s

\* ---------------------------------------------------------------- observations
NewOps  == {"new", "default", "visit_str", "visit_string"}
ReadOps == {"as_ref", "serialize"}

\* Thread t's Symbol::new has returned a Symbol / its as_ref has returned a &str.
Returned(t) == pc[t] = "done" /\ res[t] = "ok" /\ op[t] \in NewOps
Viewed(t)   == pc[t] = "done" /\ res[t] = "ok" /\ op[t] \in ReadOps

\* Thread t's call interned the text s given as a &str or a String.
Interned(t, s) == Returned(t) /\ Std(arg[t]) /\ arg[t].ref = s

\* ---------------------------------------------------------------- claims

\* C1: two calls that intern the same text, given as a &str or as a String,
\* return the same Symbol (the same index).
C1_Deduplication ==
    \A t, u \in Threads : \A s \in Strs :
        Interned(t, s) /\ Interned(u, s) => sym[t] = sym[u]

\* C2: the text of the Symbol returned for an input string S is S, whether S
\* was found or inserted, and every text view read for that Symbol is S.
C2_ContentFidelity ==
    \A t \in Threads : \A s \in Strs :
        Interned(t, s) =>
            /\ sym[t] \in Indices(values)
            /\ Text(values, heap, sym[t]) = s
            /\ \A u \in Threads : Viewed(u) /\ view[u].sym = sym[t] => view[u].text = s

\* C2 witness: a call found its non-empty text already stored, and another
\* thread has read the text of the Symbol it returned.
C2_Witness ==
    \E t, u \in Threads :
        /\ Interned(t, "a") /\ base[t] = -1
        /\ Viewed(u) /\ view[u].sym = sym[t] /\ view[u].text = "a"

\* The number of entries when the last of the threads' calls started.
MaxBase == CHOOSE b \in { base[t] : t \in Threads } : \A u \in Threads : base[u] <= b

\* C3: when every thread has interned the same text C in calls that all
\* started while C was not in the table, all of them got the same Symbol, a
\* later intern(C) finds that Symbol, and exactly one entry was added.
C3_ConcurrentInterning ==
    \A s \in Strs :
        (\A t \in Threads : Interned(t, s) /\ base[t] >= 0) =>
            /\ \A t, u \in Threads : sym[t] = sym[u]
            /\ \A t \in Threads : get(mapping, heap, s) = { e \in mapping : e.index = sym[t] }
            /\ \A t \in Threads : Cardinality(get(mapping, heap, s)) = 1
            /\ Len(values) = MaxBase + 1
            /\ Cardinality({ i \in Indices(values) : Text(values, heap, i) = s }) = 1

\* C3 witness: all threads (at least two) have returned from such calls.
C3_Witness ==
    /\ Cardinality(Threads) >= 2
    /\ \A t \in Threads : Interned(t, "a") /\ base[t] >= 0

\* C4: no two entries of values hold the same text.
C4_StrictDeduplication ==
    \A i, j \in Indices(values) :
        Text(values, heap, i) = Text(values, heap, j) => i = j

\* One step keeps the entries: the number of entries does not decrease and
\* every index keeps its String and its text.
C5_Step ==
    /\ Len(values') >= Len(values)
    /\ \A i \in Indices(values) :
        /\ At(values', i) = At(values, i)
        /\ Text(values', heap', i) = Text(values, heap, i)

\* C5: no step removes, moves, rewrites or reuses an entry, so the text of a
\* Symbol is the same after any number of later interning calls.
C5_GrowthOnly == [][C5_Step]_vars

\* C5 witness: a thread holds the Symbol of the entry its call inserted first,
\* and an entry with another text has been inserted since.
C5_Witness ==
    \E t \in Threads :
        /\ Returned(t) /\ base[t] = 0 /\ sym[t] = 0
        /\ Len(values) = 2
        /\ Text(values, heap, 1) # Text(values, heap, 0)
        /\ Text(values, heap, 0) = arg[t].own

\* One step leaves the characters behind every text view a thread holds and
\* behind every key of the map alive and unchanged.
C6_Step ==
    /\ \A t \in Threads :
        view[t].ptr # 0 =>
            /\ Deref(heap, view[t].ptr) = view[t].text
            /\ Deref(heap', view[t].ptr) = view[t].text
            /\ view[t].text \in Strs
    /\ \A e \in mapping :
        /\ Deref(heap', e.key) = Deref(heap, e.key)
        /\ Deref(heap, e.key) \in Strs
        /\ \E f \in mapping' : f.key = e.key
    /\ \A f \in mapping' : Deref(heap', f.key) \in Strs

\* C6: every text view returned by as_ref and every key of the map denotes
\* the same characters after any later step, insertions that move the Vec's
\* block included.
C6_ViewsStayValid == [][C6_Step]_vars

\* C6 witness: a thread holds a text view, an entry has been inserted since
\* it was taken and the Vec's block has moved since.
C6_Witness ==
    \E t \in Threads :
        /\ Viewed(t)
        /\ view[t].ptr # 0
        /\ vecPtr # view[t].block
        /\ Len(values) > view[t].sym + 1
        /\ Deref(heap, view[t].ptr) = view[t].text

\* C7: two interned Symbols are equal (and hash alike) exactly when their
\* texts are equal.
C7_IdentityMatchesContent ==
    \A t, u \in Threads : \A a, b \in Strs :
        Interned(t, a) /\ Interned(u, b) =>
            /\ (sym[t] = sym[u]) <=> (a = b)
            /\ (Hash(sym[t]) = Hash(sym[u])) <=> (a = b)

\* The argument of intern("").
InternEmpty == [form |-> "str", ref |-> "", own |-> ""]

\* One step of default() or intern("").
C8_Step ==
    \A t \in Threads :
        /\ op'[t] = "default" => /\ arg'[t] = InternEmpty
        /\ (op[t] = "default" /\ pc[t] # "done" /\ pc'[t] = "done" /\ res'[t] = "ok") =>
              /\ get(mapping', heap', "") = { e \in mapping' : e.index = sym'[t] }
              /\ Cardinality(get(mapping', heap', "")) = 1
              /\ Text(values', heap', sym'[t]) = ""
        /\ (Std(arg[t]) /\ arg[t].ref = "" /\ pc[t] = "new_push" /\ values' # values) =>
              /\ "" \notin Contents(values, heap)
              /\ Len(values') = Len(values) + 1

\* C8: default() passes the empty string that intern("") passes, the Symbol
\* it returns is the one intern("") finds in the table it leaves, and a
\* default() or intern("") call never inserts the empty string when an entry
\* already holds it.
C8_DefaultIdentity == [][C8_Step]_vars

\* C8 witness: default() returned the Symbol of an empty string that was
\* already stored, and another thread's intern("") returned the same Symbol.
C8_Witness ==
    \E t, u \in Threads :
        /\ Returned(t) /\ op[t] = "default" /\ base[t] = -1
        /\ Interned(u, "") /\ op[u] = "new" /\ sym[u] = sym[t]

\* C9: deserializing the string a Symbol was serialized to returns that Symbol
\* and adds no entry.
C9_RoundTrip ==
    \A t \in Threads :
        (Returned(t) /\ op[t] \in {"visit_str", "visit_string"} /\ view[t].sym # -1) =>
            /\ arg[t].ref = Text(values, heap, view[t].sym)
            /\ sym[t] = view[t].sym
            /\ base[t] = -1

\* C10: a call of Symbol::new with a &str or a String never ends in a panic.
C10_InterningCannotFail ==
    \A t \in Threads :
        (pc[t] = "done" /\ op[t] \in NewOps /\ Std(arg[t])) =>
            /\ res[t] = "ok"
            /\ sym[t] \in Indices(values)


\* Waiting(t): the thread is blocked on an acquisition of the lock (lines 22, 41).
Waiting(t) == pc[t] \in {"new_write", "as_ref_read", "new_get_read"}

\* Holds(t): the thread holds the lock, in write mode or in read mode.
Holds(t) == writer = t \/ t \in readers

\* C11: no thread ever waits for the lock for ever: in particular no thread
\* waits for the lock while holding it itself, since the single lock is never
\* acquired again by the thread that holds it.
C11_NoSelfDeadlock ==
    \A t \in Threads : ~(Waiting(t) /\ Holds(t))


\* InWrite(t): the thread is between line 22 and the return of Symbol::new,
\* in the lookup (line 23), the push (line 27) or the map insert (line 33).
InWrite(t) == pc[t] \in {"new_get", "new_get_read", "new_push", "new_insert"}

\* InRead(t): the thread is between line 41 and the return of Symbol::as_ref.
InRead(t) == pc[t] = "as_ref_index"

\* C12: a thread inside the lookup-or-insert of an intern call holds the lock
\* in write mode, a thread inside a text-view read holds it in read mode, and
\* a writer never shares the lock with a reader or with another writer.
C12_LockProtocol ==
    /\ \A t \in Threads : InWrite(t) <=> writer = t
    /\ \A t \in Threads : InRead(t) <=> t \in readers
    /\ \A t \in Threads : InWrite(t) =>
          \A u \in Threads \ {t} : ~InWrite(u) /\ ~InRead(u)
    /\ writer # 0 => readers = {}

\* C12 witness: two threads are reading at the same time.
C12_Witness ==
    /\ Cardinality({ t \in Threads : InRead(t) }) >= 2
    /\ Cardinality(readers) >= 2
    /\ writer = 0


\* Pushed(t): the thread has pushed its entry (line 27) and has not yet
\* inserted the key for it (line 33).
Pushed(t) == pc[t] = "new_insert"

\* Observing(t): the thread is about to read the table, in the lookup of an
\* intern call (line 23) or in the indexing of a text-view read (line 43).
Observing(t) == pc[t] \in {"new_get", "as_ref_index"}

\* HalfInserted: the newest entry of the sequence has no key in the map, or the
\* map holds an index that the sequence does not have.
HalfInserted ==
    \/ values # << >> /\ \A e \in mapping : e.index # Len(values) - 1
    \/ \E e \in mapping : e.index \notin Indices(values)

\* C13: the push and the map insert of one insertion are a single step to every
\* observer: while a thread has pushed and not yet indexed its entry no other
\* thread is reading the table, and whenever a thread reads the table, or
\* nobody holds the lock, there is no entry that is pushed and not yet indexed.
C13_InsertionAtomic ==
    /\ \A t \in Threads : Pushed(t) => \A u \in Threads \ {t} : ~Observing(u) /\ ~Pushed(u)
    /\ \A u \in Threads : Observing(u) => ~HalfInserted
    /\ writer = 0 => ~HalfInserted

\* C13 witness: a second entry is pushed and not yet indexed while the other
\* thread has started a call and waits for the lock.
C13_Witness ==
    \E t \in Threads : \E u \in Threads \ {t} :
        /\ Pushed(t) /\ HalfInserted /\ Len(values) = 2
        /\ pc[u] \in {"new_write", "as_ref_read"}


\* The lookup of thread t finds its text (line 23 yields Some).
Hit(t) ==
    /\ pc[t] = "new_get"
    /\ arg[t].ref \in Strs
    /\ Hits(mapping, heap, arg[t].ref) # {}

\* The steps a thread takes from a hit, the lookup and the drop of a String
\* argument: the call returns the index stored for its text, and the sequence,
\* the map and the characters of both are as before.
C14_Step ==
    \A t \in Threads :
        /\ Hit(t) /\ pc'[t] # pc[t] =>
              /\ pc'[t] = (IF buf[t] = 0 THEN "done" ELSE "new_drop")
              /\ pc'[t] = "done" => res'[t] = "ok"
              /\ sym'[t] \in { e.index : e \in Hits(mapping, heap, arg[t].ref) }
              /\ Text(values, heap, sym'[t]) = arg[t].ref
        /\ pc[t] = "new_drop" /\ pc'[t] # pc[t] =>
              /\ pc'[t] = "done" /\ res'[t] = "ok" /\ buf'[t] = 0
              /\ sym'[t] = sym[t]
              /\ Text(values, heap, sym'[t]) = arg[t].ref
        /\ (Hit(t) \/ pc[t] = "new_drop") /\ pc'[t] # pc[t] =>
              /\ values' = values /\ mapping' = mapping /\ vecPtr' = vecPtr
              /\ \A i \in Indices(values) : Text(values', heap', i) = Text(values, heap, i)
              /\ \A e \in mapping : Deref(heap', e.key) = Deref(heap, e.key)

\* C14: an intern call whose text is already a key of the map returns the
\* stored index and leaves the sequence and the map exactly as they were.
C14_HitLeavesTable == [][C14_Step]_vars

\* C14 witness: a call given an owned String found its text at index 1 of a
\* table of two entries and has returned.
C14_Witness ==
    \E t \in Threads :
        /\ Returned(t) /\ Std(arg[t]) /\ arg[t].form = "String" /\ base[t] = -1
        /\ Len(values) = 2 /\ sym[t] = 1
        /\ Hits(mapping, heap, arg[t].ref) = { e \in mapping : e.index = 1 }


\* Thread t is inside an intern call for the text C given as a &str or a String.
Interning(t, C) == Std(arg[t]) /\ arg[t].ref = C

\* The lookup of a text that is not a key (line 23 yields None) reads the
\* number of entries (line 26) and changes nothing.
C15_Lookup(t, C) ==
    pc[t] = "new_get" /\ Hits(mapping, heap, C) = {} /\ pc'[t] # pc[t] =>
        /\ pc'[t] = "new_push"
        /\ index'[t] = Len(values)
        /\ values' = values /\ mapping' = mapping /\ heap' = heap

\* The push (line 27) appends one entry with the text C at the index read by
\* the lookup, and leaves the earlier entries and the map as they were.
C15_Push(t, C) ==
    pc[t] = "new_push" /\ pc'[t] # pc[t] =>
        /\ index[t] = Len(values)
        /\ Hits(mapping, heap, C) = {}
        /\ Len(values') = Len(values) + 1
        /\ Text(values', heap', index[t]) = C
        /\ \A i \in Indices(values) :
              At(values', i) = At(values, i) /\ Text(values', heap', i) = Text(values, heap, i)
        /\ mapping' = mapping
        /\ \A e \in mapping : Deref(heap', e.key) = Deref(heap, e.key)

\* The map insert (lines 32-33) adds the one pair C |-> index, leaves the
\* earlier pairs and all entries as they were, and the call returns the index.
C15_Insert(t, C) ==
    pc[t] = "new_insert" /\ pc'[t] # pc[t] =>
        /\ pc'[t] = "done" /\ res'[t] = "ok"
        /\ sym'[t] = index[t] /\ sym'[t] = Len(values) - 1
        /\ values' = values
        /\ \A i \in Indices(values) : Text(values', heap', i) = Text(values, heap, i)
        /\ Text(values', heap', sym'[t]) = C
        /\ mapping \subseteq mapping'
        /\ \A e \in mapping : Deref(heap', e.key) = Deref(heap, e.key)
        /\ Cardinality(mapping' \ mapping) = 1
        /\ \A e \in mapping' \ mapping : Deref(heap', e.key) = C /\ e.index = sym'[t]

\* C15: an intern call for a text C that is not in the map returns the number
\* of entries there were, appends exactly one entry with the text C at that
\* index, adds exactly the pair C |-> index to the map, and leaves every
\* earlier entry and pair as it was.
C15_MissAppendsOne ==
    [][\A t \in Threads : \A C \in Strs :
          Interning(t, C) => C15_Lookup(t, C) /\ C15_Push(t, C) /\ C15_Insert(t, C)]_vars

\* C15 witness: the only thread that ever ran has interned a String whose text
\* was not in a table of one entry, and got index 1 of a table of two.
C15_Witness ==
    \E t \in Threads :
        /\ Returned(t) /\ Std(arg[t]) /\ arg[t].form = "String"
        /\ base[t] = 1 /\ sym[t] = 1 /\ Len(values) = 2
        /\ Cardinality(mapping) = 2
        /\ Text(values, heap, 1) = arg[t].ref
        /\ \A u \in Threads \ {t} : pc[u] = "idle"


\* The texts of the entries and of the keys, as the table's readers see them.
EntryTexts(v, h) == [i \in Indices(v) |-> Text(v, h, i)]
KeyTexts(m, h) == { << Deref(h, e.key), e.index >> : e \in m }

\* One step leaves the sequence, the map and the characters of both unchanged.
TableUnchanged ==
    /\ values' = values /\ mapping' = mapping /\ vecPtr' = vecPtr
    /\ EntryTexts(values', heap') = EntryTexts(values, heap)
    /\ KeyTexts(mapping', heap') = KeyTexts(mapping, heap)

\* Thread t takes a step of a read: the call of as_ref, Deref, Display, Debug
\* or serialize on a copy of a Symbol, its lock acquisition or its indexing.
ReadStep(t) ==
    /\ pc'[t] # pc[t]
    /\ \/ pc[t] \in {"as_ref_read", "as_ref_index"}
       \/ pc'[t] = "as_ref_read"

\* Thread t takes the push or the map insert of an intern call.
InternStep(t) ==
    /\ pc'[t] # pc[t]
    /\ pc[t] \in {"new_push", "new_insert"}
    /\ op[t] \in NewOps

\* C16: no step of as_ref, Deref, Display, Debug, serialize or of copying a
\* Symbol changes the sequence or the map, and every step that changes them is
\* the push or the map insert of an intern call.
C16_ReadsDoNotWrite ==
    [][/\ \A t \in Threads : ReadStep(t) => TableUnchanged /\ op'[t] \in ReadOps
       /\ ~TableUnchanged => \E t \in Threads : InternStep(t)]_vars

\* C16 witness: both threads have read the text of a copy of the second Symbol
\* of a table of two entries, one through as_ref and one through serialize.
C16_Witness ==
    \E t \in Threads : \E u \in Threads \ {t} :
        /\ Viewed(t) /\ op[t] = "as_ref" /\ view[t].sym = 1
        /\ Viewed(u) /\ op[u] = "serialize" /\ view[u].sym = 1
        /\ Len(values) = 2 /\ Cardinality(mapping) = 2
        /\ view[t].text = Text(values, heap, 1)


\* The entry points of Deserialize::deserialize: the format gave a borrowed
\* string, an owned string, or something that is not a string.
DeserializeOps == {"visit_str", "visit_string", "expecting"}

\* C17: a finished deserialization has failed, with the format's own error,
\* exactly when the format had no string to give; when the format gave a
\* string, borrowed or owned, it has succeeded with the Symbol of that string,
\* and interning has not made it fail.
C17_DeserializeFailsOnlyOnFormat ==
    \A t \in Threads :
        (pc[t] = "done" /\ op[t] \in DeserializeOps) =>
            /\ res[t] \in {"ok", "error"}
            /\ res[t] = "error" <=> op[t] = "expecting"
            /\ res[t] = "ok" => sym[t] \in Indices(values)
                                /\ Text(values, heap, sym[t]) = arg[t].ref


\* C18: whenever no thread holds the lock in write mode, the map has as many
\* keys as the sequence has entries, and for every index i the map sends the
\* text of entry i to i.
C18_MapInvertsSequence ==
    writer = 0 =>
        /\ Cardinality(mapping) = Len(values)
        /\ \A i \in Indices(values) :
              Hits(mapping, heap, Text(values, heap, i)) = { e \in mapping : e.index = i }
        /\ \A i \in Indices(values) : \E e \in mapping : e.index = i


\* C19: every Symbol returned by Symbol::new, default, a conversion or a
\* deserialization is the index of an entry of the sequence, in every later
\* state, so the indexing of as_ref is in bounds, also while other threads
\* insert.
C19_SymbolsAreValidIndices ==
    /\ issued \subseteq Indices(values)
    /\ \A t \in Threads : Returned(t) => sym[t] \in issued /\ sym[t] < Len(values)
    /\ \A t \in Threads :
          pc[t] \in {"as_ref_read", "as_ref_index"} =>
              view[t].sym >= 0 /\ view[t].sym < Len(values)
    /\ \A t \in Threads :
          Viewed(t) => /\ view[t].sym \in Indices(values)
                       /\ view[t].text = Text(values, heap, view[t].sym)
                       /\ view[t].text \in Strs

\* C19 witness: a thread is about to index the sequence with the first Symbol
\* while the other thread has pushed a second entry, which moved the Vec's
\* block, and has not returned yet.
C19_Witness ==
    \E t \in Threads : \E u \in Threads \ {t} :
        /\ pc[t] = "as_ref_read" /\ view[t].sym = 0
        /\ pc[u] = "new_insert" /\ index[u] = 1
        /\ Len(values) = 2 /\ vecPtr = 2
        /\ issued = {0}

====
